---------------------------- MODULE Spec2Model ----------------------------
(***************************************************************************)
(* A model of the linearization core of GTSAM:                             *)
(*   - gtsam/linear/VectorValues.h: the key-indexed block vector, and      *)
(*   - gtsam_unstable/nonlinear/ExpressionFactor.h: the factor that turns  *)
(*     an expression into a JacobianFactor.                                *)
(* VVSpec drives one VectorValues object through its standard interface.   *)
(* EFSpec constructs one ExpressionFactor and calls its two methods.       *)
(* MTSpec runs the two methods statement by statement in several threads.  *)
(***************************************************************************)
EXTENDS Integers, Sequences, FiniteSets, TLC

(***************************************************************************)
(* Bounds of the model.                                                    *)
(***************************************************************************)
\* Keys are 0..MaxKey.
MaxKey == 1
\* A stored Vector has between 1 and MaxDim rows.
MaxDim == 2

Keys == 0..MaxKey
Scalars == {0, 1}

\* The Vectors given to the container: d rows, every entry the same scalar.
Vec == {[i \in 1..d |-> s] : d \in 1..MaxDim, s \in Scalars}
\* The Vectors held by the source of an update: MaxDim rows of 1.
SrcVec == {[i \in 1..MaxDim |-> 1]}

\* std::invalid_argument and std::out_of_range, and "no exception".
NoError == "none"
InvalidArgument == "invalid_argument"
OutOfRange == "out_of_range"

VARIABLES
    values_,   \* VectorValues::values_: a set of pair<Key, Vector> nodes
    old,       \* values_ as it was when the last call was entered
    ref,       \* a reference key-to-vector map, driven by the same calls
    call,      \* the last call on the container: its name and arguments
    res,       \* what the last call did: [err, ret]
    factor,    \* the ExpressionFactor's fields, or Unconstructed
    queries,   \* how many times expression_.keysAndDims() has been called
    fcall,     \* the last call on the factor: its name and arguments
    fres,      \* what the last call on the factor did: [err, ret, trace]
    facs,      \* the factors the threads share
    th,        \* each thread's call: its arguments, position and locals
    mem        \* the storage the calls write: block matrices and H buffers

vvVars == <<values_, old, ref, call, res>>
efVars == <<factor, queries, fcall, fres>>
mtVars == <<facs, th, mem>>
vars == <<values_, old, ref, call, res, factor, queries, fcall, fres, facs, th, mem>>

(***************************************************************************)
(* VectorValues                                                            *)
(***************************************************************************)
\* The past-the-end iterator.
End == <<>>

\* The containers over the given vectors: at most one node per key.
ContainersOver(V) ==
    {c \in SUBSET (Keys \X V) : \A p \in c, q \in c : p[1] = q[1] => p = q}

\* The key set of a container, and the container seen as a key-to-vector map.
KeysOf(vals) == {p[1] : p \in vals}
AsMap(vals) == [k \in KeysOf(vals) |-> (CHOOSE p \in vals : p[1] = k)[2]]

\* values_.find(j): the node with key j, or end().
find(vals, j) ==
    IF \E p \in vals : p[1] = j THEN CHOOSE p \in vals : p[1] = j ELSE End

\* values_.insert(key_value), the map's insert: the map is not modified when
\* the key is present; returns pair<iterator, bool>.
MapInsert(vals, key_value) ==
    IF find(vals, key_value[1]) = End
    THEN [values |-> vals \cup {key_value}, first |-> key_value, second |-> TRUE]
    ELSE [values |-> vals, first |-> find(vals, key_value[1]), second |-> FALSE]

\* values_.unsafe_erase(var): removes the node, returns how many were removed.
unsafe_erase(vals, var) ==
    [values |-> {p \in vals : p[1] # var},
     count |-> Cardinality({p \in vals : p[1] = var})]

size(vals) == Cardinality(vals)

exists(vals, j) == find(vals, j) # End

at_insertsDefault(vals, j) ==
    LET item == find(vals, j) IN
    IF item = End
    THEN [values |-> vals \cup {<<j, <<0>>>>}, err |-> NoError, ret |-> <<j, <<0>>>>]
    ELSE [values |-> vals, err |-> NoError, ret |-> item]

\* Vector& at(Key j)
at(vals, j) ==
    LET item == find(vals, j) IN
    IF item = End
    THEN [values |-> vals, err |-> OutOfRange, ret |-> End]
    ELSE [values |-> vals, err |-> NoError, ret |-> item]

\* const Vector& at(Key j) const
atConst(vals, j) ==
    LET item == find(vals, j) IN
    IF item = End
    THEN [values |-> vals, err |-> OutOfRange, ret |-> End]
    ELSE [values |-> vals, err |-> NoError, ret |-> item]

\* Vector& operator[](Key j)
index(vals, j) == at(vals, j)

\* const Vector& operator[](Key j) const
indexConst(vals, j) == atConst(vals, j)

\* size_t dim(Key j) const { return at(j).rows(); }
dim(vals, j) ==
    LET r == atConst(vals, j) IN
    IF r.err # NoError
    THEN r
    ELSE [values |-> r.values, err |-> NoError, ret |-> Len(r.ret[2])]

insertPair_overwrite(vals, key_value) ==
    LET result == MapInsert(vals, key_value) IN
    IF ~result.second
    THEN [values |-> {p \in vals : p[1] # key_value[1]} \cup {key_value},
          err |-> InvalidArgument, ret |-> End]
    ELSE [values |-> result.values, err |-> NoError, ret |-> result.first]

\* iterator insert(const std::pair<Key, Vector>& key_value)
insertPair(vals, key_value) ==
    LET result == MapInsert(vals, key_value) IN
    IF ~result.second
    THEN [values |-> result.values, err |-> InvalidArgument, ret |-> End]
    ELSE [values |-> result.values, err |-> NoError, ret |-> result.first]

\* iterator insert(Key j, const Vector& value)
insert(vals, j, value) == insertPair(vals, <<j, value>>)

tryInsert_assign(vals, j, value) ==
    LET result == MapInsert(vals, <<j, value>>) IN
    [values |-> {p \in vals : p[1] # j} \cup {<<j, value>>}, err |-> NoError,
     ret |-> <<result.first, result.second>>]

\* std::pair<iterator, bool> tryInsert(Key j, const Vector& value)
tryInsert(vals, j, value) ==
    LET result == MapInsert(vals, <<j, value>>) IN
    [values |-> result.values, err |-> NoError,
     ret |-> <<result.first, result.second>>]

\* void erase(Key var)
erase(vals, var) ==
    LET result == unsafe_erase(vals, var) IN
    IF result.count = 0
    THEN [values |-> result.values, err |-> InvalidArgument, ret |-> End]
    ELSE [values |-> result.values, err |-> NoError, ret |-> End]

\* The outcomes of update(values) when some key of values is absent here:
\* std::out_of_range, no key added, and any of the blocks whose keys are
\* present already overwritten.
updateFailures(vals, other) ==
    {[values |-> {p \in vals : p[1] \notin done}
                   \cup {q \in other : q[1] \in done},
      err |-> OutOfRange, ret |-> End] :
        done \in SUBSET (KeysOf(other) \cap KeysOf(vals))}

update_merge(vals, other) ==
    {[values |-> {p \in vals : p[1] \notin KeysOf(other)} \cup other,
      err |-> NoError, ret |-> End]}

\* void update(const VectorValues& values): the set of its possible outcomes.
update(vals, other) ==
    IF KeysOf(other) \subseteq KeysOf(vals)
    THEN {[values |-> {p \in vals : p[1] \notin KeysOf(other)} \cup other,
           err |-> NoError, ret |-> End]}
    ELSE updateFailures(vals, other)

\* The reference map's own operations.
RefInsert(m, k, v) ==
    IF k \in DOMAIN m THEN m ELSE [j \in DOMAIN m \cup {k} |-> IF j = k THEN v ELSE m[j]]
RefErase(m, k) == [j \in DOMAIN m \ {k} |-> m[j]]

\* What a call leaves for its caller: the exception, or the returned value.
Result(r) == [err |-> r.err, ret |-> r.ret]

Insert(j, value) ==
    LET r == insert(values_, j, value) IN
    /\ old' = values_
    /\ values_' = r.values
    /\ res' = Result(r)
    /\ call' = [op |-> "insert", key |-> j, value |-> value]
    /\ ref' = RefInsert(ref, j, value)
    /\ UNCHANGED <<efVars, mtVars>>

InsertPair(key_value) ==
    LET r == insertPair(values_, key_value) IN
    /\ old' = values_
    /\ values_' = r.values
    /\ res' = Result(r)
    /\ call' = [op |-> "insertPair", key |-> key_value[1], value |-> key_value[2]]
    /\ ref' = RefInsert(ref, key_value[1], key_value[2])
    /\ UNCHANGED <<efVars, mtVars>>

TryInsert(j, value) ==
    LET r == tryInsert(values_, j, value) IN
    /\ old' = values_
    /\ values_' = r.values
    /\ res' = Result(r)
    /\ call' = [op |-> "tryInsert", key |-> j, value |-> value]
    /\ ref' = RefInsert(ref, j, value)
    /\ UNCHANGED <<efVars, mtVars>>

Erase(var) ==
    LET r == erase(values_, var) IN
    /\ old' = values_
    /\ values_' = r.values
    /\ res' = Result(r)
    /\ call' = [op |-> "erase", key |-> var]
    /\ ref' = RefErase(ref, var)
    /\ UNCHANGED <<efVars, mtVars>>

At(j) ==
    LET r == at(values_, j) IN
    /\ old' = values_
    /\ values_' = r.values
    /\ res' = Result(r)
    /\ call' = [op |-> "at", key |-> j]
    /\ ref' = ref
    /\ UNCHANGED <<efVars, mtVars>>

AtConst(j) ==
    LET r == atConst(values_, j) IN
    /\ old' = values_
    /\ values_' = r.values
    /\ res' = Result(r)
    /\ call' = [op |-> "atConst", key |-> j]
    /\ ref' = ref
    /\ UNCHANGED <<efVars, mtVars>>

Index(j) ==
    LET r == index(values_, j) IN
    /\ old' = values_
    /\ values_' = r.values
    /\ res' = Result(r)
    /\ call' = [op |-> "index", key |-> j]
    /\ ref' = ref
    /\ UNCHANGED <<efVars, mtVars>>

IndexConst(j) ==
    LET r == indexConst(values_, j) IN
    /\ old' = values_
    /\ values_' = r.values
    /\ res' = Result(r)
    /\ call' = [op |-> "indexConst", key |-> j]
    /\ ref' = ref
    /\ UNCHANGED <<efVars, mtVars>>

DimCall(j) ==
    LET r == dim(values_, j) IN
    /\ old' = values_
    /\ values_' = r.values
    /\ res' = Result(r)
    /\ call' = [op |-> "dim", key |-> j]
    /\ ref' = ref
    /\ UNCHANGED <<efVars, mtVars>>

\* update is not a call of the reference map: the map is re-based on the
\* container, every state of which insert alone also reaches.
Update(other) ==
    \E r \in update(values_, other) :
        /\ old' = values_
        /\ values_' = r.values
        /\ res' = Result(r)
        /\ call' = [op |-> "update", src |-> other]
        /\ ref' = AsMap(r.values)
        /\ UNCHANGED <<efVars, mtVars>>

VVInit ==
    /\ values_ = {}
    /\ old = {}
    /\ ref = <<>>
    /\ call = [op |-> "VectorValues"]
    /\ res = [err |-> NoError, ret |-> End]


VVNext ==
    \/ \E j \in Keys, value \in Vec : Insert(j, value)
    \/ \E key_value \in Keys \X Vec : InsertPair(key_value)
    \/ \E j \in Keys, value \in Vec : TryInsert(j, value)
    \/ \E var \in Keys : Erase(var)
    \/ \E j \in Keys : At(j)
    \/ \E j \in Keys : AtConst(j)
    \/ \E j \in Keys : Index(j)
    \/ \E j \in Keys : IndexConst(j)
    \/ \E j \in Keys : DimCall(j)
    \/ \E other \in ContainersOver(SrcVec) : Update(other)

(***************************************************************************)
(* ExpressionFactor<T>, for T a vector type of tangent dimension Dim.      *)
(***************************************************************************)
\* static const int Dim = traits::dimension<T>::value
Dim == 2
\* The entries of measurements and of the values of an assignment: 0..MaxVal.
MaxVal == 1

\* The exception Values::at raises for a key the assignment does not hold.
NotFound == "not_found"

\* A null shared pointer (no noise model, no factor).
NullPtr == [null |-> TRUE]

VecOf(n) == [1..n -> 0..MaxVal]
\* The 2-vectors an assignment holds for key 0.
Points == {<<a, MaxVal - a>> : a \in 0..MaxVal}

\* Matrices are sequences of rows; a block matrix is a sequence of blocks.
Filled(rows, cols, v) == [r \in 1..rows |-> [c \in 1..cols |-> v]]
Identity(n) == [r \in 1..n |-> [c \in 1..n |-> IF r = c THEN 1 ELSE 0]]
MatAdd(A, B) == [r \in 1..Len(A) |-> [c \in 1..Len(A[r]) |-> A[r][c] + B[r][c]]]
Column(v) == [r \in 1..Len(v) |-> <<v[r]>>]
Negate(v) == [r \in 1..Len(v) |-> 0 - v[r]]

\* The noise models: kind, dim() and the factor each row is whitened by.
RowWeight(kind, i) ==
    IF kind = "unit" THEN 1 ELSE IF kind = "diagonal" THEN i + 1 ELSE i
NoiseModels ==
    {[null |-> FALSE, kind |-> k, dim |-> d, w |-> [i \in 1..d |-> RowWeight(k, i)]] :
        k \in {"unit", "diagonal", "constrained"}, d \in (Dim - 1)..(Dim + 1)}

\* noiseModel->is_constrained()
is_constrained(model) == model.kind = "constrained"

\* noiseModel::Constrained::unit(): the unit model of the same dimension.
unit(model) ==
    [null |-> FALSE, kind |-> "unit", dim |-> model.dim,
     w |-> [i \in 1..model.dim |-> 1]]

\* noiseModel_->WhitenSystem(Ab.matrix(), dummy): every row of the whole
\* augmented matrix is scaled by that row's weight.
WhitenSystem(model, Ab) ==
    [b \in 1..Len(Ab) |->
        [r \in 1..Len(Ab[b]) |->
            [c \in 1..Len(Ab[b][r]) |-> model.w[r] * Ab[b][r][c]]]]

\* The expressions: keysAndDims(), the value and the Jacobian of each key.
\*   "x0":       h(x) = x[0]                        over key 0 (2 columns)
\*   "x0_ramp":  h(x) = x[0] + (x[1], 2 x[1])       over keys 0, 1 (2 + 1 columns)
\*   "ramp":     h(x) = (x[1], 2 x[1])              over key 1 (1 column)
Expressions ==
    {[name |-> "x0", keys |-> <<0>>, dims |-> <<2>>],
     [name |-> "x0_ramp", keys |-> <<0, 1>>, dims |-> <<2, 1>>],
     [name |-> "ramp", keys |-> <<1>>, dims |-> <<1>>]}

\* expression_.keysAndDims()
keysAndDims(e) == <<e.keys, e.dims>>

\* The assignments (Values): key 0 holds a 2-vector, key 1 a 1-vector, and
\* either may be missing.
Assignments ==
    {[k \in {0, 1} |-> <<>>]} \cup
    {[k \in {0, 1} |-> IF k = 0 THEN a ELSE <<>>] : a \in Points} \cup
    {[k \in {0, 1} |-> IF k = 1 THEN b ELSE <<>>] : b \in VecOf(1)} \cup
    {[k \in {0, 1} |-> IF k = 0 THEN a ELSE b] : a \in Points, b \in VecOf(1)}
Holds(x, k) == x[k] # <<>>

ExprValue(e, x) ==
    IF e.name = "x0" THEN x[0]
    ELSE IF e.name = "x0_ramp" THEN <<x[0][1] + x[1][1], x[0][2] + 2 * x[1][1]>>
    ELSE <<x[1][1], 2 * x[1][1]>>

ExprJacobian(e, i) ==
    IF e.keys[i] = 0 THEN Identity(2) ELSE <<<<1>>, <<2>>>>

\* expression_.value(x): raises NotFound when x lacks a key of the expression.
value(e, x) ==
    IF \E i \in 1..Len(e.keys) : ~Holds(x, e.keys[i])
    THEN [err |-> NotFound, value |-> <<>>]
    ELSE [err |-> NoError, value |-> ExprValue(e, x)]

\* expression_.value(x, jacobianMap): as value(x), and adds the Jacobian of
\* every key to that key's block of Ab.
valueJ(e, x, Ab) ==
    IF value(e, x).err # NoError
    THEN [err |-> NotFound, value |-> <<>>, Ab |-> Ab]
    ELSE [err |-> NoError, value |-> ExprValue(e, x),
          Ab |-> [b \in 1..Len(Ab) |->
                     IF b <= Len(e.keys)
                     THEN MatAdd(Ab[b], ExprJacobian(e, b))
                     ELSE Ab[b]]]

\* DefaultChart<T>::local(origin, other) of a vector type: other - origin.
local(origin, other) == [r \in 1..Len(origin) |-> other[r] - origin[r]]

\* NonlinearFactor::active(x): always true unless a factor class gates itself;
\* a "switch" factor is active when x holds key 1 with a non-zero value.
Gates == {"always", "switch"}
active(f, x) == f.gate = "always" \/ (Holds(x, 1) /\ x[1][1] # 0)

\* VerticalBlockMatrix(dimensions, height): allocated, entries not yet set.
VerticalBlockMatrix(dimensions, height, g) ==
    [b \in 1..Len(dimensions) |-> Filled(height, dimensions[b], g)]

\* JacobianFactor(keys, dims, m, model): a writeable factor with one block per
\* key and one trailing column for the right-hand side.
JacobianFactor(keys, dims, m, model, g) ==
    [null |-> FALSE, keys |-> keys, dims |-> dims, rows |-> m, model |-> model,
     Ab |-> VerticalBlockMatrix(Append(dims, 1), m, g)]

\* Ab.matrix().setZero()
setZero(Ab) ==
    [b \in 1..Len(Ab) |-> Filled(Len(Ab[b]), Len(Ab[b][1]), 0)]

\* std::accumulate(first, last, init)
RECURSIVE accumulate(_, _)
accumulate(s, init) ==
    IF s = <<>> THEN init ELSE accumulate(Tail(s), init + Head(s))

Unconstructed == [status |-> "unconstructed"]

\* Factor::size(): the number of keys.
fsize(f) == Len(f.keys_)

ExpressionFactor_noDimCheck(noiseModel, measurement, expression, gate) ==
    IF noiseModel.null
    THEN [err |-> InvalidArgument, factor |-> [status |-> "failed"],
          queries |-> 0, trace |-> <<"members", "throw">>]
    ELSE LET kd == keysAndDims(expression) IN
         [err |-> NoError,
          factor |-> [status |-> "constructed",
                      measurement_ |-> measurement,
                      expression_ |-> expression,
                      noiseModel_ |-> noiseModel,
                      keys_ |-> kd[1],
                      dimensions_ |-> kd[2],
                      augmentedCols_ |-> accumulate(kd[2], 1),
                      gate |-> gate],
          queries |-> 1,
          trace |-> <<"members", "noiseModel_", "keysAndDims", "accumulate">>]

\* ExpressionFactor(noiseModel, measurement, expression). The gate is the
\* factor class's active().
ExpressionFactor(noiseModel, measurement, expression, gate) ==
    IF noiseModel.null
    THEN [err |-> InvalidArgument, factor |-> [status |-> "failed"],
          queries |-> 0, trace |-> <<"members", "throw">>]
    ELSE IF noiseModel.dim # Dim
    THEN [err |-> InvalidArgument, factor |-> [status |-> "failed"],
          queries |-> 0, trace |-> <<"members", "throw">>]
    ELSE LET kd == keysAndDims(expression) IN
         [err |-> NoError,
          factor |-> [status |-> "constructed",
                      measurement_ |-> measurement,
                      expression_ |-> expression,
                      noiseModel_ |-> noiseModel,
                      keys_ |-> kd[1],
                      dimensions_ |-> kd[2],
                      augmentedCols_ |-> accumulate(kd[2], 1),
                      gate |-> gate],
          queries |-> 1,
          trace |-> <<"members", "noiseModel_", "keysAndDims", "accumulate">>]

\* The H argument of unwhitenedError: boost::none, or size() matrices.
NoH == [given |-> FALSE, blocks |-> <<>>]
PreAllocated(f) == [given |-> TRUE, blocks |-> [i \in 1..fsize(f) |-> <<>>]]

\* Vector unwhitenedError(const Values& x, optional<vector<Matrix>&> H) const
unwhitenedError(f, x, H, g) ==
    IF H.given
    THEN LET Ab0 == VerticalBlockMatrix(f.dimensions_, Dim, g)
             Ab1 == setZero(Ab0)
             ev == valueJ(f.expression_, x, Ab1)
         IN IF ev.err # NoError
            THEN [err |-> ev.err, ret |-> <<>>, H |-> H,
                  trace |-> <<"alloc", "setZero", "value">>]
            ELSE [err |-> NoError,
                  ret |-> local(f.measurement_, ev.value),
                  H |-> [given |-> TRUE,
                         blocks |-> [i \in 1..fsize(f) |-> ev.Ab[i]]],
                  trace |-> <<"alloc", "setZero", "value", "copy", "local">>]
    ELSE LET ev == value(f.expression_, x)
         IN IF ev.err # NoError
            THEN [err |-> ev.err, ret |-> <<>>, H |-> H, trace |-> <<"value">>]
            ELSE [err |-> NoError,
                  ret |-> local(f.measurement_, ev.value),
                  H |-> H, trace |-> <<"value", "local">>]

linearize_zeroWhenInactive(f, x, g) ==
    IF ~active(f, x)
    THEN [err |-> NoError,
          ret |-> [JacobianFactor(f.keys_, f.dimensions_, Dim, NullPtr, g)
                      EXCEPT !.Ab = setZero(@)],
          trace |-> <<"active", "alloc", "setZero", "return">>]
    ELSE LET constrained == is_constrained(f.noiseModel_)
             fac == IF constrained
                    THEN JacobianFactor(f.keys_, f.dimensions_, Dim,
                                        unit(f.noiseModel_), g)
                    ELSE JacobianFactor(f.keys_, f.dimensions_, Dim, NullPtr, g)
             Ab0 == fac.Ab
             Ab1 == setZero(Ab0)
             ev == valueJ(f.expression_, x, Ab1)
         IN IF ev.err # NoError
            THEN [err |-> ev.err, ret |-> NullPtr,
                  trace |-> <<"active", "alloc", "setZero", "value">>]
            ELSE LET Ab2 == [ev.Ab EXCEPT ![fsize(f) + 1] =
                                Column(Negate(local(f.measurement_, ev.value)))]
                     Ab3 == WhitenSystem(f.noiseModel_, Ab2)
                 IN [err |-> NoError,
                     ret |-> [fac EXCEPT !.Ab = Ab3],
                     trace |-> <<"active", "alloc", "setZero", "value", "rhs",
                                 "WhitenSystem", "return">>]

linearize_keepsModel(f, x, g) ==
    IF ~active(f, x)
    THEN [err |-> NoError, ret |-> NullPtr, trace |-> <<"active">>]
    ELSE LET constrained == is_constrained(f.noiseModel_)
             fac == IF constrained
                    THEN JacobianFactor(f.keys_, f.dimensions_, Dim,
                                        f.noiseModel_, g)
                    ELSE JacobianFactor(f.keys_, f.dimensions_, Dim, NullPtr, g)
             Ab0 == fac.Ab
             Ab1 == setZero(Ab0)
             ev == valueJ(f.expression_, x, Ab1)
         IN IF ev.err # NoError
            THEN [err |-> ev.err, ret |-> NullPtr,
                  trace |-> <<"active", "alloc", "setZero", "value">>]
            ELSE LET Ab2 == [ev.Ab EXCEPT ![fsize(f) + 1] =
                                Column(Negate(local(f.measurement_, ev.value)))]
                     Ab3 == WhitenSystem(f.noiseModel_, Ab2)
                 IN [err |-> NoError,
                     ret |-> [fac EXCEPT !.Ab = Ab3],
                     trace |-> <<"active", "alloc", "setZero", "value", "rhs",
                                 "WhitenSystem", "return">>]

linearize_positiveRhs(f, x, g) ==
    IF ~active(f, x)
    THEN [err |-> NoError, ret |-> NullPtr, trace |-> <<"active">>]
    ELSE LET constrained == is_constrained(f.noiseModel_)
             fac == IF constrained
                    THEN JacobianFactor(f.keys_, f.dimensions_, Dim,
                                        unit(f.noiseModel_), g)
                    ELSE JacobianFactor(f.keys_, f.dimensions_, Dim, NullPtr, g)
             Ab0 == fac.Ab
             Ab1 == setZero(Ab0)
             ev == valueJ(f.expression_, x, Ab1)
         IN IF ev.err # NoError
            THEN [err |-> ev.err, ret |-> NullPtr,
                  trace |-> <<"active", "alloc", "setZero", "value">>]
            ELSE LET Ab2 == [ev.Ab EXCEPT ![fsize(f) + 1] =
                                Column(local(f.measurement_, ev.value))]
                     Ab3 == WhitenSystem(f.noiseModel_, Ab2)
                 IN [err |-> NoError,
                     ret |-> [fac EXCEPT !.Ab = Ab3],
                     trace |-> <<"active", "alloc", "setZero", "value", "rhs",
                                 "WhitenSystem", "return">>]

linearize_bestEffort(f, x, g) ==
    IF ~active(f, x)
    THEN [err |-> NoError, ret |-> NullPtr, trace |-> <<"active">>]
    ELSE LET constrained == is_constrained(f.noiseModel_)
             fac == IF constrained
                    THEN JacobianFactor(f.keys_, f.dimensions_, Dim,
                                        unit(f.noiseModel_), g)
                    ELSE JacobianFactor(f.keys_, f.dimensions_, Dim, NullPtr, g)
             Ab0 == fac.Ab
             Ab1 == setZero(Ab0)
             ev == valueJ(f.expression_, x, Ab1)
         IN IF ev.err # NoError
            THEN [err |-> NoError, ret |-> [fac EXCEPT !.Ab = Ab1],
                  trace |-> <<"active", "alloc", "setZero", "value", "return">>]
            ELSE LET Ab2 == [ev.Ab EXCEPT ![fsize(f) + 1] =
                                Column(Negate(local(f.measurement_, ev.value)))]
                     Ab3 == WhitenSystem(f.noiseModel_, Ab2)
                 IN [err |-> NoError,
                     ret |-> [fac EXCEPT !.Ab = Ab3],
                     trace |-> <<"active", "alloc", "setZero", "value", "rhs",
                                 "WhitenSystem", "return">>]

\* boost::shared_ptr<GaussianFactor> linearize(const Values& x) const
linearize(f, x, g) ==
    IF ~active(f, x)
    THEN [err |-> NoError, ret |-> NullPtr, trace |-> <<"active">>]
    ELSE LET constrained == is_constrained(f.noiseModel_)
             fac == IF constrained
                    THEN JacobianFactor(f.keys_, f.dimensions_, Dim,
                                        unit(f.noiseModel_), g)
                    ELSE JacobianFactor(f.keys_, f.dimensions_, Dim, NullPtr, g)
             Ab0 == fac.Ab
             Ab1 == setZero(Ab0)
             ev == valueJ(f.expression_, x, Ab1)
         IN IF ev.err # NoError
            THEN [err |-> ev.err, ret |-> NullPtr,
                  trace |-> <<"active", "alloc", "setZero", "value">>]
            ELSE LET Ab2 == [ev.Ab EXCEPT ![fsize(f) + 1] =
                                Column(Negate(local(f.measurement_, ev.value)))]
                     Ab3 == WhitenSystem(f.noiseModel_, Ab2)
                 IN [err |-> NoError,
                     ret |-> [fac EXCEPT !.Ab = Ab3],
                     trace |-> <<"active", "alloc", "setZero", "value", "rhs",
                                 "WhitenSystem", "return">>]

Construct(noiseModel, measurement, expression, gate) ==
    /\ factor = Unconstructed
    /\ LET r == ExpressionFactor(noiseModel, measurement, expression, gate) IN
        /\ factor' = r.factor
        /\ queries' = queries + r.queries
        /\ fcall' = [op |-> "ExpressionFactor", noiseModel |-> noiseModel,
                     expression |-> expression]
        /\ fres' = [err |-> r.err, trace |-> r.trace]
    /\ UNCHANGED <<vvVars, mtVars>>

\* g is what the freshly allocated matrix holds before it is written.
Linearize(x, g) ==
    /\ factor.status = "constructed"
    /\ fcall' = [op |-> "linearize", x |-> x]
    /\ fres' = linearize(factor, x, g)
    /\ UNCHANGED <<factor, queries>>
    /\ UNCHANGED <<vvVars, mtVars>>

UnwhitenedError(x, wantH, g) ==
    /\ factor.status = "constructed"
    /\ fcall' = [op |-> "unwhitenedError", x |-> x, wantH |-> wantH]
    /\ fres' = unwhitenedError(factor, x,
                               IF wantH THEN PreAllocated(factor) ELSE NoH, g)
    /\ UNCHANGED <<factor, queries>>
    /\ UNCHANGED <<vvVars, mtVars>>

EFInit ==
    /\ factor = Unconstructed
    /\ queries = 0
    /\ fcall = [op |-> "none"]
    /\ fres = [err |-> NoError, trace |-> <<>>]

Garbage == {0, 7}

EFNext ==
    \/ \E noiseModel \in NoiseModels \cup {NullPtr}, measurement \in VecOf(Dim),
          expression \in Expressions, gate \in Gates :
            Construct(noiseModel, measurement, expression, gate)
    \/ \E x \in Assignments, g \in Garbage : Linearize(x, g)
    \/ \E x \in Assignments, wantH \in BOOLEAN, g \in Garbage :
            UnwhitenedError(x, wantH, g)

(***************************************************************************)
(* linearize and unwhitenedError statement by statement, called from       *)
(* several threads on shared factors.                                      *)
(***************************************************************************)
Threads == {1, 2}

\* The factors the threads call: a soft factor over two keys and a gated
\* hard-constraint factor over one.
FactorPool ==
    <<ExpressionFactor(CHOOSE n \in NoiseModels : n.kind = "diagonal" /\ n.dim = Dim,
                       <<0, 1>>, CHOOSE e \in Expressions : e.name = "x0_ramp",
                       "always").factor,
      ExpressionFactor(CHOOSE n \in NoiseModels : n.kind = "constrained" /\ n.dim = Dim,
                       <<1, 0>>, CHOOSE e \in Expressions : e.name = "x0",
                       "switch").factor>>

\* The assignments the threads pass.
ThreadAssignments ==
    {x \in Assignments : x[0] \in {<<>>, <<0, MaxVal>>} /\ x[1] \in {<<>>, <<1>>}}

\* The statements of linearize, in the order of the code.
LinearizeOrder_whitenBeforeRhs ==
    <<"active", "alloc", "setZero", "valueJ", "WhitenSystem", "rhs", "return">>

LinearizeOrder ==
    <<"active", "alloc", "setZero", "valueJ", "rhs", "WhitenSystem", "return">>

\* The statements of unwhitenedError with H, and without.
ErrorHOrder == <<"allocAb", "setZero", "valueJ", "copy", "local">>
ErrorOrder == <<"value", "local">>

Order(c) ==
    IF c.op = "linearize" THEN LinearizeOrder
    ELSE IF c.wantH THEN ErrorHOrder ELSE ErrorOrder

\* What a call fails with: linearize has no factor, unwhitenedError no vector.
Thrown(c, err) ==
    [err |-> err, ret |-> IF c.op = "linearize" THEN NullPtr ELSE <<>>]

\* The locals of a call before its first statement: the block matrix Ab, the
\* caller's H, value, the factor being built, and what it returned.
Pending == [err |-> "pending"]
Fresh(c, f) ==
    [Ab |-> <<>>,
     H |-> IF c.op = "unwhitenedError" /\ c.wantH
           THEN PreAllocated(f).blocks ELSE <<>>,
     value |-> <<>>, fac |-> NullPtr, ret |-> Pending, done |-> FALSE]

\* One statement s of call c on factor f, on the call's locals L; g is what a
\* freshly allocated matrix holds.
Exec(s, c, f, g, L) ==
    CASE s = "active" ->
            IF active(f, c.x) THEN L
            ELSE [L EXCEPT !.ret = [err |-> NoError, ret |-> NullPtr],
                           !.done = TRUE]
      [] s = "alloc" ->
            LET constrained == is_constrained(f.noiseModel_)
                F == IF constrained
                     THEN JacobianFactor(f.keys_, f.dimensions_, Dim,
                                         unit(f.noiseModel_), g)
                     ELSE JacobianFactor(f.keys_, f.dimensions_, Dim, NullPtr, g)
            IN [L EXCEPT !.fac = [F EXCEPT !.Ab = <<>>], !.Ab = F.Ab]
      [] s = "allocAb" ->
            [L EXCEPT !.Ab = VerticalBlockMatrix(f.dimensions_, Dim, g)]
      [] s = "setZero" -> [L EXCEPT !.Ab = setZero(L.Ab)]
      [] s = "valueJ" ->
            LET ev == valueJ(f.expression_, c.x, L.Ab) IN
            IF ev.err # NoError
            THEN [L EXCEPT !.ret = Thrown(c, ev.err), !.done = TRUE]
            ELSE [L EXCEPT !.Ab = ev.Ab, !.value = ev.value]
      [] s = "value" ->
            LET ev == value(f.expression_, c.x) IN
            IF ev.err # NoError
            THEN [L EXCEPT !.ret = Thrown(c, ev.err), !.done = TRUE]
            ELSE [L EXCEPT !.value = ev.value]
      [] s = "rhs" ->
            [L EXCEPT !.Ab[fsize(f) + 1] =
                          Column(Negate(local(f.measurement_, L.value)))]
      [] s = "WhitenSystem" ->
            [L EXCEPT !.Ab = WhitenSystem(f.noiseModel_, L.Ab)]
      [] s = "return" ->
            [L EXCEPT !.ret = [err |-> NoError, ret |-> [L.fac EXCEPT !.Ab = L.Ab]],
                      !.done = TRUE]
      [] s = "copy" -> [L EXCEPT !.H = [i \in 1..fsize(f) |-> L.Ab[i]]]
      [] s = "local" ->
            [L EXCEPT !.ret = [err |-> NoError,
                               ret |-> local(f.measurement_, L.value)],
                      !.done = TRUE]

\* Where the block matrix of thread t's call lives: the call allocates it.
Scratch_static(t) == <<"Ab", 0>>

Scratch(t) == <<"Ab", t>>

\* Where the H of thread t's call lives: the caller's own vector.
HBuf(t) == <<"H", t>>

\* The storage: one place per call for its matrix and its H, and one place
\* that belongs to no call.
Locations == {"Ab", "H"} \X (Threads \cup {0})

Idle ==
    [pc |-> 0, c |-> [op |-> "none"], value |-> <<>>, fac |-> NullPtr,
     ret |-> Pending, done |-> FALSE, log |-> <<>>, written |-> {}]

\* The locals of thread t's call, gathered from the thread and the storage.
Locals(t) ==
    [Ab |-> mem[Scratch(t)], H |-> mem[HBuf(t)], value |-> th[t].value,
     fac |-> th[t].fac, ret |-> th[t].ret, done |-> th[t].done]

\* Thread t enters linearize(x) or unwhitenedError(x, H) on factor i.
Enter(t, c) ==
    /\ th[t].pc = 0
    /\ ~th[t].done
    /\ LET L == Fresh(c, facs[c.f]) IN
        /\ th' = [th EXCEPT ![t] = [Idle EXCEPT !.pc = 1, !.c = c]]
        /\ mem' = [mem EXCEPT ![HBuf(t)] = L.H]
    /\ UNCHANGED facs
    /\ UNCHANGED <<vvVars, efVars>>

\* Thread t runs the next statement of its call.
Step(t, g) ==
    /\ th[t].pc > 0
    /\ ~th[t].done
    /\ LET c == th[t].c
           s == Order(c)[th[t].pc]
           L == Locals(t)
           M == Exec(s, c, facs[c.f], g, L)
       IN /\ mem' = [mem EXCEPT ![Scratch(t)] = M.Ab, ![HBuf(t)] = M.H]
          /\ th' = [th EXCEPT ![t] =
                       [pc |-> IF M.done THEN 0 ELSE th[t].pc + 1,
                        c |-> c, value |-> M.value, fac |-> M.fac,
                        ret |-> M.ret, done |-> M.done,
                        log |-> Append(th[t].log, s),
                        written |-> th[t].written
                            \cup (IF M.Ab # L.Ab THEN {Scratch(t)} ELSE {})
                            \cup (IF M.H # L.H THEN {HBuf(t)} ELSE {})]]
    /\ UNCHANGED facs
    /\ UNCHANGED <<vvVars, efVars>>

ThreadCalls ==
    {[op |-> "linearize", f |-> i, x |-> x, wantH |-> FALSE] :
        i \in 1..Len(FactorPool), x \in ThreadAssignments} \cup
    {[op |-> "unwhitenedError", f |-> i, x |-> x, wantH |-> h] :
        i \in 1..Len(FactorPool), x \in ThreadAssignments, h \in BOOLEAN}

MTInit ==
    /\ facs = FactorPool
    /\ th = [t \in Threads |-> Idle]
    /\ mem = [l \in Locations |-> <<>>]

MTNext ==
    \/ \E t \in Threads, c \in ThreadCalls : Enter(t, c)
    \/ \E t \in Threads, g \in Garbage : Step(t, g)

Init == VVInit /\ EFInit /\ MTInit

\* One VectorValues object under its standard interface.
VVSpec == Init /\ [][VVNext]_vars

\* One ExpressionFactor: its construction, then calls of its methods.
EFSpec == Init /\ [][EFNext]_vars

\* Threads calling the methods of shared factors, one statement at a time.
MTSpec == Init /\ [][MTNext]_vars

Next == VVNext \/ EFNext \/ MTNext

\* Both objects side by side.
Spec == Init /\ [][Next]_vars

(***************************************************************************)
(* Properties of VectorValues, checked under VVSpec.                       *)
(***************************************************************************)
Lookups == {"at", "atConst", "index", "indexConst", "dim"}

\* C1: insert(k, v) on a key that is already present, through either
\* overload, raises std::invalid_argument and leaves the container as it
\* was: same keys, same size, same block for every key, k included.
C1_InsertDuplicateRejected ==
    (call.op \in {"insert", "insertPair"} /\ exists(old, call.key)) =>
        /\ res.err = InvalidArgument
        /\ KeysOf(values_) = KeysOf(old)
        /\ size(values_) = size(old)
        /\ \A k \in Keys : find(values_, k) = find(old, k)

C1_Witness ==
    /\ call.op = "insert"
    /\ exists(old, call.key)
    /\ find(old, call.key)[2] # call.value
    /\ res.err = InvalidArgument

\* C2: erase(k) of an absent key raises std::out_of_range, the error at(k)
\* raises for an absent key and not the one insert raises for a duplicate,
\* and leaves the container unchanged.
C2_EraseAbsentNotFound ==
    (call.op = "erase" /\ ~exists(old, call.key)) =>
        /\ res.err = OutOfRange
        /\ res.err = at(old, call.key).err
        /\ res.err # InvalidArgument
        /\ values_ = old

C4_RefinesReferenceMap ==
    /\ AsMap(values_) = ref
    /\ (call.op \in {"insert", "insertPair"} /\ res.err = NoError) =>
        /\ at(values_, call.key).ret[2] = call.value
        /\ size(values_) = size(old) + 1
    /\ (call.op = "tryInsert" /\ ~exists(old, call.key)) =>
        /\ res.ret[2] = TRUE
        /\ at(values_, call.key).ret[2] = call.value
        /\ size(values_) = size(old) + 1
    /\ (call.op = "tryInsert" /\ exists(old, call.key)) =>
        /\ res.ret[2] = FALSE
        /\ values_ = old
    /\ (call.op = "erase" /\ res.err = NoError) =>
        /\ ~exists(values_, call.key)
        /\ size(values_) = size(old) - 1
    /\ call.op \in {"insert", "insertPair", "tryInsert", "erase"} =>
        \A k \in Keys \ {call.key} : find(values_, k) = find(old, k)

C4_Witness ==
    /\ call.op = "tryInsert"
    /\ exists(old, call.key)
    /\ find(old, call.key)[2] # call.value
    /\ res.ret[2] = FALSE
    /\ size(values_) = 2

\* C5: when every key of the source is present, update replaces exactly the
\* blocks of the source's keys, leaves the other blocks and the key set as
\* they were; when some key of the source is absent it raises
\* std::out_of_range.
C5_UpdateFrame ==
    call.op = "update" =>
        IF KeysOf(call.src) \subseteq KeysOf(old)
        THEN /\ res.err = NoError
             /\ \A k \in KeysOf(call.src) : find(values_, k) = find(call.src, k)
             /\ \A k \in KeysOf(old) \ KeysOf(call.src) :
                    find(values_, k) = find(old, k)
             /\ KeysOf(values_) = KeysOf(old)
        ELSE res.err = OutOfRange

C5_Witness ==
    /\ call.op = "update"
    /\ res.err = NoError
    /\ \E k \in KeysOf(call.src) : find(old, k) # find(call.src, k)
    /\ \E k \in KeysOf(old) : k \notin KeysOf(call.src)

(***************************************************************************)
(* Properties of ExpressionFactor, checked under EFSpec.                   *)
(***************************************************************************)
Contains(trace, step) == \E i \in 1..Len(trace) : trace[i] = step

\* C6: construction raises std::invalid_argument when the noise model is
\* null and when its dim() is not Dim; then no factor exists and
\* keysAndDims() was never called. Otherwise construction succeeds.
C6_ConstructorChecksNoiseModel ==
    /\ fcall.op = "ExpressionFactor" =>
        IF fcall.noiseModel.null \/ fcall.noiseModel.dim # Dim
        THEN /\ fres.err = InvalidArgument
             /\ factor.status = "failed"
             /\ queries = 0
             /\ ~Contains(fres.trace, "keysAndDims")
        ELSE /\ fres.err = NoError
             /\ factor.status = "constructed"
             /\ factor.noiseModel_ = fcall.noiseModel
    /\ factor.status = "failed" => queries = 0
    /\ factor.status = "constructed" => factor.noiseModel_.dim = Dim

C6_Witness ==
    /\ fcall.op = "ExpressionFactor"
    /\ ~fcall.noiseModel.null
    /\ fcall.noiseModel.dim # Dim
    /\ fres.err = InvalidArgument

\* C7: linearize of an assignment for which the factor is not active returns
\* a null pointer, raises nothing, and neither allocates a matrix, nor
\* evaluates the expression, nor whitens.
C7_InactiveGivesNull ==
    (fcall.op = "linearize" /\ ~active(factor, fcall.x)) =>
        /\ fres.ret.null
        /\ fres.err = NoError
        /\ \A step \in {"alloc", "setZero", "value", "rhs", "WhitenSystem"} :
              ~Contains(fres.trace, step)

C7_Witness ==
    /\ fcall.op = "linearize"
    /\ ~active(factor, fcall.x)
    /\ value(factor.expression_, fcall.x).err = NoError
    /\ fres.ret.null

\* C8: the factor linearize returns carries the unit substitute of the noise
\* model exactly when the noise model is constrained and no noise model
\* otherwise; it is over the factor's keys in their order, its blocks are as
\* wide as the dimensions recorded at construction, and it has Dim rows.
C8_ReturnedFactorShape ==
    (fcall.op = "linearize" /\ fres.err = NoError /\ ~fres.ret.null) =>
        LET F == fres.ret IN
        /\ is_constrained(factor.noiseModel_) =>
              ~F.model.null /\ F.model = unit(factor.noiseModel_)
        /\ ~is_constrained(factor.noiseModel_) => F.model.null
        /\ F.keys = keysAndDims(factor.expression_)[1]
        /\ F.keys = factor.keys_
        /\ F.dims = keysAndDims(factor.expression_)[2]
        /\ F.rows = Dim
        /\ Len(F.Ab) = Len(factor.keys_) + 1
        /\ \A b \in 1..Len(factor.keys_) :
              /\ Len(F.Ab[b]) = Dim
              /\ \A r \in 1..Dim : Len(F.Ab[b][r]) = factor.dimensions_[b]
        /\ Len(F.Ab[Len(F.Ab)]) = Dim
        /\ \A r \in 1..Dim : Len(F.Ab[Len(F.Ab)][r]) = 1

C8_Witness ==
    /\ fcall.op = "linearize"
    /\ fres.err = NoError
    /\ ~fres.ret.null
    /\ is_constrained(factor.noiseModel_)
    /\ fres.ret.model.kind = "unit"
    /\ Len(fres.ret.keys) = 2

\* C9: with a unit noise model, the right-hand side of the factor linearize
\* returns is the negated unwhitenedError, its Jacobian blocks are the
\* blocks unwhitenedError writes into H, and unwhitenedError returns the
\* same residual with and without H.
C9_UnitLinearizeMatchesError ==
    /\ (/\ fcall.op = "linearize"
        /\ factor.noiseModel_.kind = "unit"
        /\ fres.err = NoError
        /\ ~fres.ret.null) =>
            \A g \in Garbage :
                LET e == unwhitenedError(factor, fcall.x, NoH, g)
                    eH == unwhitenedError(factor, fcall.x, PreAllocated(factor), g)
                    Ab == fres.ret.Ab
                IN /\ e.err = NoError /\ eH.err = NoError
                   /\ Ab[fsize(factor) + 1] = Column(Negate(e.ret))
                   /\ \A i \in 1..fsize(factor) : Ab[i] = eH.H.blocks[i]
                   /\ e.ret = eH.ret
    /\ (fcall.op = "unwhitenedError" /\ fres.err = NoError) =>
            \A g \in Garbage :
                fres.ret = unwhitenedError(factor, fcall.x,
                               IF fcall.wantH THEN NoH ELSE PreAllocated(factor),
                               g).ret

C9_Witness ==
    /\ fcall.op = "linearize"
    /\ factor.noiseModel_.kind = "unit"
    /\ fres.err = NoError
    /\ ~fres.ret.null
    /\ fsize(factor) = 2
    /\ fres.ret.Ab[3] # Column(<<0, 0>>)
    /\ fres.ret.Ab[3] # Column(unwhitenedError(factor, fcall.x, NoH, 0).ret)

\* C10: when the evaluation of the expression in linearize raises NotFound,
\* linearize raises it too: it returns no factor, never whitens, and leaves
\* the factor's fields as they were.
C10_EvaluationFailurePropagates ==
    [][(/\ fcall'.op = "linearize"
        /\ active(factor, fcall'.x)
        /\ value(factor.expression_, fcall'.x).err = NotFound) =>
            /\ fres'.err = NotFound
            /\ fres'.ret.null
            /\ ~Contains(fres'.trace, "WhitenSystem")
            /\ ~Contains(fres'.trace, "return")
            /\ factor' = factor
            /\ queries' = queries]_vars

C10_Witness ==
    /\ fcall.op = "linearize"
    /\ active(factor, fcall.x)
    /\ fres.err = NotFound
    /\ \E k \in {0, 1} : Holds(fcall.x, k)

(***************************************************************************)
(* Properties of concurrent calls, checked under MTSpec.                   *)
(***************************************************************************)
\* The locals of call c after its first n statements, run with no other
\* thread.
RECURSIVE Solo(_, _, _)
Solo(c, n, g) ==
    IF n = 0 THEN Fresh(c, facs[c.f])
    ELSE LET L == Solo(c, n - 1, g) IN
         IF L.done THEN L ELSE Exec(Order(c)[n], c, facs[c.f], g, L)

InCall(t) == th[t].c.op # "none"

\* Every call is, at every statement, where it would be had it run alone, and
\* a finished call has the result of the whole method.
SameAsAlone ==
    \A t \in Threads : InCall(t) =>
        LET c == th[t].c
            f == facs[c.f]
        IN /\ c \in ThreadCalls
           /\ \E g \in Garbage : Locals(t) = Solo(c, Len(th[t].log), g)
           /\ (th[t].done /\ c.op = "linearize") =>
                \E g \in Garbage :
                    /\ th[t].ret.err = linearize(f, c.x, g).err
                    /\ th[t].ret.ret = linearize(f, c.x, g).ret
           /\ (th[t].done /\ c.op = "unwhitenedError") =>
                \E g \in Garbage :
                    LET r == unwhitenedError(f, c.x,
                                 IF c.wantH THEN PreAllocated(f) ELSE NoH, g)
                    IN /\ th[t].ret.err = r.err
                       /\ th[t].ret.ret = r.ret
                       /\ mem[HBuf(t)] = r.H.blocks

\* No call writes the factors or storage that is another call's or nobody's.
NothingSharedWritten ==
    /\ facs = FactorPool
    /\ \A t \in Threads, u \in Threads :
          t # u => {Scratch(t), HBuf(t)} \cap ({Scratch(u), HBuf(u)} \cup th[u].written) = {}
    /\ \A l \in Locations :
          l \notin {Scratch(t) : t \in Threads} \cup {HBuf(t) : t \in Threads} =>
              mem[l] = <<>>

\* C11 as stated: concurrent calls of linearize and unwhitenedError each give
\* the result of the call run alone; each call writes only the block matrix
\* it allocated, and none writes the factor, the assignment or shared storage.
C11_CallsWriteOnlyOwnMatrix ==
    /\ SameAsAlone
    /\ NothingSharedWritten
    /\ \A t \in Threads : th[t].written \subseteq {Scratch(t)}

\* C11, amended: concurrent calls of linearize and unwhitenedError each give
\* the result of the call run alone; each call writes only the block matrix
\* it allocated and, for unwhitenedError given H, its caller's H, which no
\* other call is given; none writes the factor, the assignment or shared
\* storage.
C11_CallsAreIsolated ==
    /\ SameAsAlone
    /\ NothingSharedWritten
    /\ \A t \in Threads :
          /\ th[t].written \subseteq {Scratch(t), HBuf(t)}
          /\ HBuf(t) \in th[t].written =>
                th[t].c.op = "unwhitenedError" /\ th[t].c.wantH

C11_Witness ==
    /\ th[1].c.op = "unwhitenedError"
    /\ th[1].c.wantH
    /\ th[1].done
    /\ th[1].ret.err = NoError
    /\ th[1].written = {Scratch(1), HBuf(1)}
    /\ th[2].c.op = "linearize"
    /\ th[2].c.f = th[1].c.f
    /\ th[2].c.x # th[1].c.x
    /\ ~th[2].done
    /\ Len(th[2].log) >= 3
    /\ mem[Scratch(2)] # mem[Scratch(1)]

Count(log, s) == Cardinality({i \in 1..Len(log) : log[i] = s})
Pos(log, s) == CHOOSE i \in 1..Len(log) : log[i] = s
Before(log, a, b) ==
    Contains(log, a) /\ Contains(log, b) /\ Pos(log, a) < Pos(log, b)

\* The augmented matrix of factor f at x before whitening: the Jacobian of
\* each key, then the negated residual.
Unwhitened(f, x) ==
    [b \in 1..(fsize(f) + 1) |->
        IF b <= fsize(f) THEN ExprJacobian(f.expression_, b)
        ELSE Column(Negate(local(f.measurement_, ExprValue(f.expression_, x))))]

\* C12: in linearize the matrix is zeroed before the expression is evaluated
\* into it, the negated residual is written into the last column after the
\* evaluation, and the whitening is called once, after both, on the whole
\* augmented matrix.
C12_LinearizeStepOrder ==
    \A t \in Threads : (InCall(t) /\ th[t].c.op = "linearize") =>
        LET log == th[t].log
            f == facs[th[t].c.f]
            x == th[t].c.x
            Ab == mem[Scratch(t)]
        IN /\ Contains(log, "valueJ") => Before(log, "setZero", "valueJ")
           /\ Contains(log, "rhs") => Before(log, "valueJ", "rhs")
           /\ Contains(log, "WhitenSystem") =>
                /\ Count(log, "WhitenSystem") = 1
                /\ Before(log, "valueJ", "WhitenSystem")
                /\ Before(log, "rhs", "WhitenSystem")
           /\ (log # <<>> /\ log[Len(log)] = "setZero") =>
                \A b \in 1..Len(Ab) : Ab[b] = Filled(Dim, Len(Ab[b][1]), 0)
           /\ (log # <<>> /\ log[Len(log)] = "rhs") => Ab = Unwhitened(f, x)
           /\ (log # <<>> /\ log[Len(log)] = "WhitenSystem") =>
                Ab = WhitenSystem(f.noiseModel_, Unwhitened(f, x))
           /\ (th[t].done /\ th[t].ret.err = NoError /\ ~th[t].ret.ret.null) =>
                /\ log = <<"active", "alloc", "setZero", "valueJ", "rhs",
                           "WhitenSystem", "return">>
                /\ th[t].ret.ret.Ab = WhitenSystem(f.noiseModel_, Unwhitened(f, x))

C12_Witness ==
    \E t \in Threads :
        /\ th[t].c.op = "linearize"
        /\ th[t].done
        /\ th[t].ret.err = NoError
        /\ ~th[t].ret.ret.null
        /\ facs[th[t].c.f].noiseModel_.kind = "diagonal"
        /\ th[t].ret.ret.Ab # Unwhitened(facs[th[t].c.f], th[t].c.x)
        /\ Count(th[t].log, "WhitenSystem") = 1

=============================================================================
